---- MODULE Spec2Model ----
(***************************************************************************)
(* AvailableQuantityByProductVariantIdAndShippingZoneCodeLoader             *)
(* (saleor/graphql/warehouse/dataloaders.py).                               *)
(*                                                                         *)
(* One call of batch_load(keys) over a read-only stock table: the keys are *)
(* split by shipping zone, one store query is run per zone, the rows are   *)
(* summed per (variant, zone id), the best zone is taken per variant, the  *)
(* value is capped, and the answers are returned in key order.             *)
(***************************************************************************)
EXTENDS Integers, Sequences, FiniteSets, TLC

\* ------------------------------------------------------------ bounds
MaxKeys == 2        \* longest key list handed to batch_load
MaxRows == 2        \* most rows of the joined stock relation
MaxQty  == 2        \* largest available_quantity of one row
MaxCap  == 3        \* the positive settings.MAX_CHECKOUT_LINE_QUANTITY tried

\* ------------------------------------------------------------ domains
None == "None"                       \* Optional[str]: the absent shipping zone
Variants == {1, 2}                   \* product variant ids
ShippingZone == {None, "Q1", "Q2"}   \* line 9: Optional[str]
ZoneIds == {1, 2}                    \* primary keys of shipping zones

\* The name column of the shipping zone with primary key id.
ZoneName(id) == IF id = 1 THEN "Q1" ELSE "Q2"

\* line 10: a key is (variant id, shipping zone)
VariantIdAndShippingZone == Variants \X ShippingZone

\* available_quantity as annotate_available_quantity() yields it: a row whose
\* stock is fully allocated, and a row with stock left.
AvailableQuantity == {0, MaxQty}

\* One row of values_list("product_variant_id", "warehouse__shipping_zones",
\* "available_quantity").
Row == [variant : Variants, zone : ZoneIds, quantity : AvailableQuantity]

BoundedSeq(S, n) == UNION {[1..m -> S] : m \in 0..n}

\* ------------------------------------------------------------ python helpers
\* bool(shipping_zone): None is falsy, a non-empty string is truthy.
Truthy(shipping_zone) == shipping_zone # None

EmptyDict == [k \in {} |-> 0]
\* d[k] of a defaultdict whose factory returns dflt
DictGet(d, k, dflt) == IF k \in DOMAIN d THEN d[k] ELSE dflt
\* d[k] = v
DictSet(d, k, v) == [x \in DOMAIN d \cup {k} |-> IF x = k THEN v ELSE d[x]]

Min(a, b) == IF a <= b THEN a ELSE b
\* max(d.values()) of a non-empty dict
MaxValue(d) == CHOOSE m \in {d[k] : k \in DOMAIN d} : \A k \in DOMAIN d : d[k] <= m

SeqToSet(s) == {s[i] : i \in 1..Len(s)}

VARIABLES
    stock,       \* the rows the stock table yields, in table order
    cap,         \* settings.MAX_CHECKOUT_LINE_QUANTITY
    keys,        \* the argument of batch_load
    pc,          \* position of the call: start, loop, done, failed
    groups,      \* variants_by_shipping_zone, in insertion order
    pending,     \* indexes of groups whose resolution has not begun
    inflight,    \* index -> quantities returned, not yet stored
    qmap,        \* quantity_by_variant_and_shipping_zone
    writeOrder,  \* indexes of the groups stored into qmap, in the order stored
    result,      \* the returned list, NoResult until the call returns
    storeCalls,  \* number of store queries executed by the call
    raised       \* TRUE once a store query of the call has raised

vars == <<stock, cap, keys, pc, groups, pending, inflight, qmap, writeOrder,
          result, storeCalls, raised>>

\* No list has been returned.
NoResult == <<-1>>

\* ------------------------------------------------------------ batch_load, lines 29-31
\* variants_by_shipping_zone[shipping_zone].append(variant_id); the dict is kept
\* as the sequence of its items in insertion order.
\* as AppendVariant, but every key opens a group of its own
AppendVariant_perKey(d, key) ==
    Append(d, [zone |-> key[2], ids |-> <<key[1]>>])

\* as AppendVariant, but assigning [variant_id] where the code appends
AppendVariant_overwrite(d, key) ==
    IF \E i \in 1..Len(d) : d[i].zone = key[2]
    THEN [i \in 1..Len(d) |->
             IF d[i].zone = key[2] THEN [d[i] EXCEPT !.ids = <<key[1]>>] ELSE d[i]]
    ELSE Append(d, [zone |-> key[2], ids |-> <<key[1]>>])

AppendVariant(d, key) ==
    LET variant_id == key[1]
        shipping_zone == key[2]
    IN IF \E i \in 1..Len(d) : d[i].zone = shipping_zone
       THEN [i \in 1..Len(d) |->
                IF d[i].zone = shipping_zone
                THEN [d[i] EXCEPT !.ids = Append(@, variant_id)]
                ELSE d[i]]
       ELSE Append(d, [zone |-> shipping_zone, ids |-> <<variant_id>>])

RECURSIVE PartitionKeys(_, _)
PartitionKeys(ks, d) ==
    IF ks = <<>> THEN d ELSE PartitionKeys(Tail(ks), AppendVariant(d, Head(ks)))

variants_by_shipping_zone(ks) == PartitionKeys(ks, <<>>)

\* ------------------------------------------------------------ batch_load_shipping_zone
\* Stock.objects.filter(product_variant_id__in=variant_ids)
filter_variant(rows, variant_ids) ==
    SelectSeq(rows, LAMBDA r : r.variant \in SeqToSet(variant_ids))

\* QuerySet.filter(warehouse__shipping_zones__name=shipping_zone)
filter_zone(rows, shipping_zone) ==
    SelectSeq(rows, LAMBDA r : ZoneName(r.zone) = shipping_zone)

\* lines 48-54. Line 50 calls results.filter(...) and drops the queryset it
\* returns; results itself is not changed by the call.
StoreQuery(shipping_zone, variant_ids) ==
    LET results == filter_variant(stock, variant_ids)
        dropped == IF Truthy(shipping_zone)
                   THEN filter_zone(results, shipping_zone)
                   ELSE results
    IN results

\* lines 63-65: quantity_by_shipping_zone_by_product_variant[variant][zone] += quantity
\* as AddQuantity, but with = where the code has +=
AddQuantity_assign(q, row) ==
    DictSet(q, row.variant,
            DictSet(DictGet(q, row.variant, EmptyDict), row.zone, row.quantity))

AddQuantity(q, row) ==
    LET inner == DictGet(q, row.variant, EmptyDict)
    IN DictSet(q, row.variant,
               DictSet(inner, row.zone, DictGet(inner, row.zone, 0) + row.quantity))

RECURSIVE SumRows(_, _)
SumRows(rows, q) ==
    IF rows = <<>> THEN q ELSE SumRows(Tail(rows), AddQuantity(q, Head(rows)))

\* lines 66-71: quantity_map[variant_id] = max(quantity_by_shipping_zone.values())
\* as quantity_map, but taking the maximum over every variant of the group
quantity_map_global(q) ==
    [v \in DOMAIN q |->
        CHOOSE m \in {MaxValue(q[u]) : u \in DOMAIN q} :
            \A u \in DOMAIN q : MaxValue(q[u]) <= m]

quantity_map(q) == [v \in DOMAIN q |-> MaxValue(q[v])]

\* line 78: min(quantity_map[variant_id], settings.MAX_CHECKOUT_LINE_QUANTITY)
\* as Clamp, but with max where the code has min
Clamp_max(quantity) == IF quantity >= cap THEN quantity ELSE cap

Clamp(quantity) == Min(quantity, cap)

\* lines 45-81: the list of (variant_id, quantity), one per requested id
batch_load_shipping_zone(shipping_zone, variant_ids) ==
    LET results == StoreQuery(shipping_zone, variant_ids)
        qm == quantity_map(SumRows(results, EmptyDict))
    IN [i \in 1..Len(variant_ids) |->
           <<variant_ids[i], Clamp(DictGet(qm, variant_ids[i], 0))>>]

\* ------------------------------------------------------------ batch_load, lines 37-43
\* lines 39-41: quantity_by_variant_and_shipping_zone[(variant_id, shipping_zone)] = quantity
RECURSIVE StoreQuantities(_, _, _)
StoreQuantities(m, shipping_zone, quantities) ==
    IF quantities = <<>> THEN m
    ELSE StoreQuantities(
             DictSet(m, <<Head(quantities)[1], shipping_zone>>, Head(quantities)[2]),
             shipping_zone, Tail(quantities))

\* line 43: [quantity_by_variant_and_shipping_zone[key] for key in keys]
\* the keys of ks without their repetitions, in order of first occurrence
RECURSIVE Distinct(_)
Distinct(ks) ==
    IF ks = <<>> THEN <<>>
    ELSE LET front == Distinct(SubSeq(ks, 1, Len(ks) - 1))
             last == ks[Len(ks)]
         IN IF last \in SeqToSet(front) THEN front ELSE Append(front, last)

\* as Reassemble, but answering each distinct key once
Reassemble_distinct(m, ks) ==
    [i \in 1..Len(Distinct(ks)) |-> DictGet(m, Distinct(ks)[i], 0)]

Reassemble(m, ks) == [i \in 1..Len(ks) |-> DictGet(m, ks[i], 0)]

\* The loop of lines 37-41 over a partition, as one fold.
RECURSIVE ResolveGroups(_, _)
ResolveGroups(gs, m) ==
    IF gs = <<>> THEN m
    ELSE ResolveGroups(Tail(gs),
             StoreQuantities(m, Head(gs).zone,
                 batch_load_shipping_zone(Head(gs).zone, Head(gs).ids)))

\* lines 25-43 as a function of the key list (the store answering every query)
batch_load(ks) == Reassemble(ResolveGroups(variants_by_shipping_zone(ks), EmptyDict), ks)

\* ------------------------------------------------------------ the call, step by step
Init ==
    /\ stock \in BoundedSeq(Row, MaxRows)
    /\ cap \in {0, MaxCap}
    /\ keys \in BoundedSeq(VariantIdAndShippingZone, MaxKeys)
    /\ pc = "start"
    /\ groups = <<>>
    /\ pending = {}
    /\ inflight = EmptyDict
    /\ qmap = EmptyDict
    /\ writeOrder = <<>>
    /\ result = NoResult
    /\ storeCalls = 0
    /\ raised = FALSE

\* lines 29-31
Partition ==
    /\ pc = "start"
    /\ groups' = variants_by_shipping_zone(keys)
    /\ pending' = 1..Len(groups')
    /\ pc' = "loop"
    /\ UNCHANGED <<stock, cap, keys, inflight, qmap, writeOrder, result, storeCalls, raised>>

\* The next item of variants_by_shipping_zone.items(): dicts iterate in insertion order.
NextGroup == CHOOSE g \in pending : \A h \in pending : g <= h

\* lines 37-41, one iteration whose query succeeds
ResolveGroup ==
    /\ pc = "loop"
    /\ pending # {}
    /\ LET g == NextGroup
           quantities == batch_load_shipping_zone(groups[g].zone, groups[g].ids)
       IN /\ qmap' = StoreQuantities(qmap, groups[g].zone, quantities)
          /\ pending' = pending \ {g}
          /\ writeOrder' = Append(writeOrder, g)
    /\ storeCalls' = storeCalls + 1
    /\ UNCHANGED <<stock, cap, keys, pc, groups, inflight, result, raised>>

\* as StoreQueryFailure, but with the exception caught and the loop going on
StoreQueryFailure_swallowed ==
    /\ pc = "loop"
    /\ pending # {}
    /\ storeCalls' = storeCalls + 1
    /\ raised' = TRUE
    /\ pending' = pending \ {NextGroup}
    /\ UNCHANGED <<stock, cap, keys, pc, groups, inflight, qmap, writeOrder, result>>

\* line 38 raising out of the store: nothing in batch_load catches it
StoreQueryFailure ==
    /\ pc = "loop"
    /\ pending # {}
    /\ storeCalls' = storeCalls + 1
    /\ raised' = TRUE
    /\ pc' = "failed"
    /\ UNCHANGED <<stock, cap, keys, groups, pending, inflight, qmap, writeOrder, result>>

\* as AllResolved, but not waiting for the resolutions still under way
AllResolved_dispatched == pending = {}

\* The loop of lines 37-41 has run to its end.
AllResolved == pending = {} /\ DOMAIN inflight = {}

\* line 43
Return ==
    /\ pc = "loop"
    /\ AllResolved
    /\ result' = Reassemble(qmap, keys)
    /\ pc' = "done"
    /\ UNCHANGED <<stock, cap, keys, groups, pending, inflight, qmap, writeOrder,
                   storeCalls, raised>>

Next == Partition \/ ResolveGroup \/ StoreQueryFailure \/ Return

Spec == Init /\ [][Next]_vars

\* ------------------------------------------------------------ the loop, fanned out
\* Lines 37-41 with the iterations run as tasks: line 38 of any group not yet begun
FetchGroup ==
    /\ pc = "loop"
    /\ \E g \in pending :
          /\ inflight' = DictSet(inflight, g,
                             batch_load_shipping_zone(groups[g].zone, groups[g].ids))
          /\ pending' = pending \ {g}
    /\ storeCalls' = storeCalls + 1
    /\ UNCHANGED <<stock, cap, keys, pc, groups, qmap, writeOrder, result, raised>>

\* lines 39-41 of any group whose quantities have come back
WriteGroup ==
    /\ pc = "loop"
    /\ \E g \in DOMAIN inflight :
          /\ qmap' = StoreQuantities(qmap, groups[g].zone, inflight[g])
          /\ inflight' = [h \in DOMAIN inflight \ {g} |-> inflight[h]]
          /\ writeOrder' = Append(writeOrder, g)
    /\ UNCHANGED <<stock, cap, keys, pc, groups, pending, result, storeCalls, raised>>

ParNext == Partition \/ FetchGroup \/ WriteGroup \/ Return

ParSpec == Init /\ [][ParNext]_vars

\* ------------------------------------------------------------ reference definitions
\* The index of the group of a shipping zone in the partition.
GroupOf(shipping_zone) ==
    CHOOSE g \in 1..Len(groups) : groups[g].zone = shipping_zone

\* The quantity the group resolver lists for a key: the pair of the key's
\* variant in the list batch_load_shipping_zone returns for the key's group.
ResolvedQuantity(key) ==
    LET quantities == batch_load_shipping_zone(key[2], groups[GroupOf(key[2])].ids)
    IN (CHOOSE p \in SeqToSet(quantities) : p[1] = key[1])[2]

RECURSIVE SumOver(_, _)
\* the sum of rows[i].quantity over the indexes i of I
SumOver(I, rows) ==
    IF I = {} THEN 0
    ELSE LET i == CHOOSE x \in I : TRUE
         IN rows[i].quantity + SumOver(I \ {i}, rows)

\* the zone ids (subgroups) in which rows hold a record of variant v
Subgroups(rows, v) == {rows[i].zone : i \in {j \in 1..Len(rows) : rows[j].variant = v}}

\* the sum of the quantities of all records of rows sharing (v, z)
SubgroupSum(rows, v, z) ==
    SumOver({i \in 1..Len(rows) : rows[i].variant = v /\ rows[i].zone = z}, rows)

\* the largest subgroup sum of variant v, which has a record in rows
BestSubgroup(rows, v) ==
    CHOOSE m \in {SubgroupSum(rows, v, z) : z \in Subgroups(rows, v)} :
        \A z \in Subgroups(rows, v) : SubgroupSum(rows, v, z) <= m

\* the rows the store query of a key's group returned
GroupRows(key) == StoreQuery(key[2], groups[GroupOf(key[2])].ids)

\* the records of a key's variant that match the key's shipping zone: those
\* of a zone named as the key says, or every record when the key names none
MatchingRows(key) ==
    LET mine == SelectSeq(stock, LAMBDA r : r.variant = key[1])
    IN IF Truthy(key[2]) THEN filter_zone(mine, key[2]) ELSE mine

\* the keys of ks under shipping zone z, and their variant ids, in order
KeysUnder(ks, z) == SelectSeq(ks, LAMBDA k : k[2] = z)
VariantsUnder(ks, z) == [i \in 1..Len(KeysUnder(ks, z)) |-> KeysUnder(ks, z)[i][1]]

NoRepeat(seq) == \A i, j \in 1..Len(seq) : seq[i] = seq[j] => i = j

\* ------------------------------------------------------------ claims

\* C1: batch_load returns a list as long as keys, and position i holds the
\* quantity resolved for keys[i]: nothing omitted, nothing reordered.
C1_OrderAndMultiplicity ==
    pc = "done" =>
        /\ Len(result) = Len(keys)
        /\ \A i \in 1..Len(keys) : result[i] = ResolvedQuantity(keys[i])

\* C1 witness: a returned list of two different answers to two different keys
C1_Witness ==
    /\ pc = "done"
    /\ Len(keys) = 2
    /\ keys[1] # keys[2]
    /\ result[1] # result[2]

\* C2: the answer to a key with a shipping zone present is computed only from
\* the records whose zone id is named as the key says; records of a zone of
\* another name never contribute.
C2_QualifierIsolation ==
    pc = "done" =>
        \A i \in 1..Len(keys) :
            Truthy(keys[i][2]) =>
                result[i] = IF Subgroups(MatchingRows(keys[i]), keys[i][1]) = {}
                            THEN 0
                            ELSE Min(BestSubgroup(MatchingRows(keys[i]), keys[i][1]), cap)

\* C3: a call that returns has queried the store once per distinct shipping
\* zone among its keys (the absent zone counting as one); the empty batch
\* returns [] without a query.
C3_OneQueryPerQualifier ==
    pc = "done" =>
        /\ storeCalls = Cardinality({keys[i][2] : i \in 1..Len(keys)})
        /\ keys = <<>> => (result = <<>> /\ storeCalls = 0)

\* C3 witness: two keys of one shipping zone and different variants, one query
C3_Witness ==
    /\ pc = "done"
    /\ Len(keys) = 2
    /\ keys[1][2] = keys[2][2]
    /\ keys[1][1] # keys[2][1]
    /\ storeCalls = 1

\* C4: for every key whose variant has a record among the rows its group's
\* query returned, the answer is min(cap, max over the variant's zone ids of
\* the sum of the quantities of the rows sharing that (variant, zone id)).
C4_TwoLevelAggregation ==
    pc = "done" =>
        \A i \in 1..Len(keys) :
            Subgroups(GroupRows(keys[i]), keys[i][1]) # {} =>
                result[i] = Min(cap, BestSubgroup(GroupRows(keys[i]), keys[i][1]))

\* C4 witness: a variant with two stocked rows in one zone id, answered by more
\* than either row holds
C4_Witness ==
    /\ pc = "done"
    /\ Len(keys) >= 1
    /\ Len(stock) = 2
    /\ stock[1].variant = keys[1][1] /\ stock[2].variant = keys[1][1]
    /\ stock[1].zone = stock[2].zone
    /\ result[1] > stock[1].quantity
    /\ result[1] > stock[2].quantity

\* C5: with a cap >= 0, every returned value v satisfies 0 <= v <= cap.
C5_ClampBound ==
    pc = "done" => \A i \in 1..Len(result) : 0 <= result[i] /\ result[i] <= cap

\* C5 witness: an aggregated quantity above the cap, answered by the cap
C5_Witness ==
    /\ pc = "done"
    /\ \E i \in 1..Len(keys) :
          /\ Subgroups(GroupRows(keys[i]), keys[i][1]) # {}
          /\ BestSubgroup(GroupRows(keys[i]), keys[i][1]) > cap
          /\ result[i] = cap
          /\ cap > 0

\* C6: a key whose variant has no record matching its shipping zone is
\* answered 0.
C6_ZeroDefault ==
    pc = "done" =>
        \A i \in 1..Len(keys) :
            Subgroups(MatchingRows(keys[i]), keys[i][1]) = {} => result[i] = 0

\* C7: equal keys of one call get equal answers, and the answer to a key is
\* the answer the key gets in a batch of its own over the same store.
C7_DuplicateConsistency ==
    pc = "done" =>
        /\ \A i, j \in 1..Len(keys) : keys[i] = keys[j] => result[i] = result[j]
        /\ \A i \in 1..Len(keys) : result[i] = batch_load(<<keys[i]>>)[1]

\* C7 witness: a key answered above 0 twice in one call
C7_Witness ==
    /\ pc = "done"
    /\ Len(keys) = 2
    /\ keys[1] = keys[2]
    /\ result[1] > 0

\* C8: once a store query of the call has raised, the call has failed: no
\* list is returned, nothing already resolved is handed out, and no step of
\* the call (a retry, the next group, the return) follows.
C8_FailurePropagates ==
    raised => (pc = "failed" /\ result = NoResult /\ ~ENABLED Next)

\* C8 witness: the second group's query raises after the first group's
\* quantities were stored
C8_Witness ==
    /\ pc = "failed"
    /\ raised
    /\ DOMAIN qmap # {}
    /\ storeCalls = 2

\* C9 as stated: the id list of every partition holds no id twice, and every
\* (variant, zone) pair of the keys is in exactly one partition.
C9_DistinctIds ==
    pc # "start" =>
        /\ \A g \in 1..Len(groups) : NoRepeat(groups[g].ids)
        /\ \A i \in 1..Len(keys) :
              Cardinality({g \in 1..Len(groups) :
                  groups[g].zone = keys[i][2] /\ keys[i][1] \in SeqToSet(groups[g].ids)}) = 1

\* C9 amended: every shipping zone of the keys has exactly one partition, and
\* the id list of a partition is the variant ids of the keys of its zone, in
\* key order and as often as the keys hold them: no id is lost, and an id is
\* repeated exactly when its key is.
C9_PartitionKeepsEveryKey ==
    pc # "start" =>
        /\ \A g, h \in 1..Len(groups) : groups[g].zone = groups[h].zone => g = h
        /\ {groups[g].zone : g \in 1..Len(groups)} = {keys[i][2] : i \in 1..Len(keys)}
        /\ \A g \in 1..Len(groups) : groups[g].ids = VariantsUnder(keys, groups[g].zone)

\* C9 witness: a duplicated key, whose id is twice in the list of its partition
C9_Witness ==
    /\ pc # "start"
    /\ Len(keys) = 2
    /\ keys[1] = keys[2]
    /\ Len(groups) = 1
    /\ groups[1].ids = <<keys[1][1], keys[1][1]>>

\* C10: every entry of the result mapping belongs to the shipping zone of a
\* group that has stored its quantities, and with the groups resolved in any
\* order and interleaving, the list returned after all of them have stored
\* is the list of the sequential loop.
C10_OrderIndependent ==
    /\ \A k \in DOMAIN qmap :
          \E n \in 1..Len(writeOrder) : groups[writeOrder[n]].zone = k[2]
    /\ pc = "done" => result = batch_load(keys)

\* C10 witness: the second group stored before the first, answers above 0
C10_Witness ==
    /\ pc = "done"
    /\ writeOrder = <<2, 1>>
    /\ result[1] > 0
    /\ result[2] > 0

====
